---- MODULE Spec2Model ----
(***************************************************************************)
(* Model of wgengine/router/dns_linux.go: the systemd-resolved DNS         *)
(* configurator (systemdIsActive, systemdUpDNS, systemdDownDNS).           *)
(*                                                                         *)
(* A caller runs systemdUpDNS or systemdDownDNS; every blocking point of   *)
(* the Go code (readlink, dbus.SystemBus, interfaces.Tailscale, each       *)
(* CallWithContext) is one step.  The bus transport, the resolved service  *)
(* and the host's interface table are the environment.                     *)
(***************************************************************************)
EXTENDS Integers, Sequences, FiniteSets, TLC

(***************************************************************************)
(* Bounds of the model.                                                    *)
(***************************************************************************)
\* clock ticks that make up one second
TicksPerSecond == 2
\* longest servers argument drawn in MarshalSpec
MaxServers == 2
\* longest domains argument drawn in MarshalSpec
MaxDomains == 2

(***************************************************************************)
(* Program constants.                                                      *)
(***************************************************************************)
\* const systemdSetTimeout = time.Second
systemdSetTimeout == 1 * TicksPerSecond

\* unix.AF_INET and unix.AF_INET6 on linux
AF_INET == 2
AF_INET6 == 10

\* var systemdStubPaths
systemdStubPaths ==
    << "/lib/systemd/resolv.conf",
       "/usr/lib/systemd/resolv.conf",
       "/run/systemd/resolve/stub-resolv.conf",
       "/var/run/systemd/resolve/stub-resolv.conf" >>

(***************************************************************************)
(* Errors.  An error value is a record: prefix is the context that         *)
(* fmt.Errorf("<prefix>: %w", err) puts in front, cause is the wrapped     *)
(* (or sentinel) error.  NoError is Go's nil.                              *)
(***************************************************************************)
NoError == [prefix |-> "", cause |-> "nil"]
errNotSystemd == [prefix |-> "", cause |-> "systemd-resolved is not in use"]
errNotReady == [prefix |-> "", cause |-> "interface not ready"]
Errorf(prefix, cause) == [prefix |-> prefix, cause |-> cause]

\* ctx.Err() once the deadline of context.WithTimeout has passed
DeadlineExceeded == "context deadline exceeded"
\* call.Err values that do not come from the context: a rejection by the
\* remote service and a failure of the transport
RemoteRejection == "dbus.Error"
TransportFailure == "dbus.ErrClosed"
CallFailures == {RemoteRejection, TransportFailure}
\* the error of a failed dbus.SystemBus()
ConnectFailure == "dbus: connect failed"
\* the error of a failed interfaces.Tailscale()
LookupFailure == "net.Interfaces failed"

\* value of ret while no invocation has returned
NotReturned == [prefix |-> "", cause |-> "not returned"]

(***************************************************************************)
(* os.Readlink("/etc/resolv.conf"): its outcome is a record with the       *)
(* error ("nil" when the link was read) and the link's target.             *)
(***************************************************************************)
ReadlinkErrors == {"ENOENT", "EACCES", "EINVAL"}

LinkPrefixes == {"", "/", "..", "/usr", "/var", "/etc"}
LinkStems ==
    { "/lib/systemd/resolv.conf",
      "/run/systemd/resolve/stub-resolv.conf",
      "/run/systemd/resolve/resolv.conf",
      "/run/resolvconf/resolv.conf",
      "/LIB/systemd/resolv.conf" }
LinkSuffixes == {"", "/", ".bak", " "}

\* the link targets drawn in DetectSpec
LinkTargets ==
    { p \o s \o x : p \in LinkPrefixes, s \in LinkStems, x \in LinkSuffixes }
        \cup {"", "/", "resolv.conf"}

ReadlinkOutcomes ==
    { [err |-> "nil", dst |-> t] : t \in LinkTargets }
        \cup { [err |-> e, dst |-> ""] : e \in ReadlinkErrors }

\* the outcomes drawn in Spec: a stub, the merged resolver list, a failure
FewReadlinkOutcomes ==
    { [err |-> "nil", dst |-> "/run/systemd/resolve/stub-resolv.conf"],
      [err |-> "nil", dst |-> "/run/systemd/resolve/resolv.conf"],
      [err |-> "ENOENT", dst |-> ""] }

(***************************************************************************)
(* netaddr.IP: is4 is what Is4() reports, a16 is what As16() returns (a    *)
(* v4 address in its v4-mapped form ::ffff:a.b.c.d).                       *)
(***************************************************************************)
IPv4(a, b, c, d) ==
    [is4 |-> TRUE,
     a16 |-> <<0, 0, 0, 0, 0, 0, 0, 0, 0, 0, 255, 255, a, b, c, d>>]
IPv6(bytes) == [is4 |-> FALSE, a16 |-> bytes]

\* 1.1.1.1
IP_1111 == IPv4(1, 1, 1, 1)
\* 100.100.100.100
IP_Quad100 == IPv4(100, 100, 100, 100)
\* 2606:4700:4700::1111
IP_CF6 == IPv6(<<38, 6, 71, 0, 71, 0, 0, 0, 0, 0, 0, 0, 0, 0, 17, 17>>)
\* ::ffff:1.1.1.1 held as a v6 address: Is4() is false
IP_4in6 == IPv6(<<0, 0, 0, 0, 0, 0, 0, 0, 0, 0, 255, 255, 1, 1, 1, 1>>)

IPs == {IP_1111, IP_Quad100, IP_CF6, IP_4in6}
DomainNames == {"corp.example.", "ts.net", ""}

RECURSIVE SeqsUpTo(_, _)
\* all sequences over S of length at most n
SeqsUpTo(S, n) ==
    IF n = 0 THEN {<<>>}
    ELSE LET shorter == SeqsUpTo(S, n - 1)
         IN  shorter \cup { Append(q, x) : q \in shorter, x \in S }

\* arguments drawn in MarshalSpec
ServerLists == SeqsUpTo(IPs, MaxServers)
DomainLists == SeqsUpTo(DomainNames, MaxDomains)

\* arguments drawn in Spec
FewServerLists == { <<IP_1111, IP_CF6>>, <<IP_Quad100>> }
FewDomainLists == { <<"corp.example.">>, <<"ts.net", "corp.example.">> }

(***************************************************************************)
(* The environment's fixed sets.                                           *)
(***************************************************************************)
Procs == {"a", "b"}
\* interface indices the host may give the Tailscale interface
Indices == {3, 7}
\* the host has no Tailscale interface
NoIface == 0

VARIABLES
    resolvConf,  \* outcome of os.Readlink("/etc/resolv.conf") on this host
    tsIface,     \* index of the host's Tailscale interface, or NoIface
    busStalled,  \* TRUE while the bus transport makes no progress
    link,        \* resolved's per-link settings: index -> [dns, domains]
    pc,          \* where each caller is in its invocation
    op,          \* "up" / "down": the operation of the invocation
    servers,     \* the servers argument of the invocation
    domains,     \* the domains argument of the invocation
    elapsed,     \* ticks since the invocation created its context
    ifIndex,     \* iface.Index resolved in the invocation (NoIface: none)
    req,         \* state of the outstanding remote call
    issued,      \* remote calls the invocation has issued, in order
    errs,        \* call.Err of the calls that have returned, in order
    steps,       \* blocking library calls the invocation has made, in order
    ret          \* what the last invocation returned

vars == << resolvConf, tsIface, busStalled, link, pc, op, servers, domains,
           elapsed, ifIndex, req, issued, errs, steps, ret >>

env == << resolvConf, tsIface, busStalled >>
args == << op, servers, domains >>
log == << issued, errs, steps >>

\* systemdIsActive whose loop stops one entry short of the table's end
systemdIsActive_ShortLoop(rl) ==
    IF rl.err # "nil" THEN FALSE
    ELSE \E i \in 1..(Len(systemdStubPaths) - 1) : rl.dst = systemdStubPaths[i]

(***************************************************************************)
(* systemdIsActive: readlink failed -> false; otherwise true exactly when  *)
(* the target equals an entry of systemdStubPaths.                         *)
(***************************************************************************)
systemdIsActive(rl) ==
    IF rl.err # "nil" THEN FALSE
    ELSE \E i \in 1..Len(systemdStubPaths) : rl.dst = systemdStubPaths[i]

(***************************************************************************)
(* Marshalling of the arguments into the wire structures.                  *)
(***************************************************************************)
\* systemdLinkNameserver taking ip[:4] of a v4 address
systemdLinkNameserver_First4(server) ==
    IF server.is4
    THEN [Family |-> AF_INET, Address |-> SubSeq(server.a16, 1, 4)]
    ELSE [Family |-> AF_INET6, Address |-> server.a16]

\* systemdLinkNameserver of one server: ip := server.As16(); Is4 -> ip[12:]
systemdLinkNameserver(server) ==
    IF server.is4
    THEN [Family |-> AF_INET, Address |-> SubSeq(server.a16, 13, 16)]
    ELSE [Family |-> AF_INET6, Address |-> server.a16]

\* the loop filling linkNameservers
linkNameservers(ss) ==
    [i \in 1..Len(ss) |-> systemdLinkNameserver(ss[i])]

\* systemdLinkDomain of one domain
systemdLinkDomain(domain) == [Domain |-> domain, RoutingOnly |-> FALSE]

\* linkDomains filled from the end
linkDomains_Reversed(ds) ==
    [i \in 1..Len(ds) |-> systemdLinkDomain(ds[Len(ds) + 1 - i])]

\* the loop filling linkDomains
linkDomains(ds) ==
    [i \in 1..Len(ds) |-> systemdLinkDomain(ds[i])]

(***************************************************************************)
(* Remote calls on org.freedesktop.resolve1.Manager.  A call is a record   *)
(* of the method, the interface index and the body (dns for SetLinkDNS,    *)
(* domains for SetLinkDomains, neither for RevertLink).                    *)
(***************************************************************************)
CallSetLinkDNS(idx, ns) ==
    [method |-> "SetLinkDNS", index |-> idx, dns |-> ns, domains |-> <<>>]
CallSetLinkDomains(idx, ds) ==
    [method |-> "SetLinkDomains", index |-> idx, dns |-> <<>>, domains |-> ds]
CallRevertLink(idx) ==
    [method |-> "RevertLink", index |-> idx, dns |-> <<>>, domains |-> <<>>]

\* a link without per-link override: the service's default
DefaultLink == [dns |-> <<>>, domains |-> <<>>]

\* what the service does to its per-link settings when it accepts call c
Accept(l, c) ==
    CASE c.method = "SetLinkDNS" ->
            [l EXCEPT ![c.index] = [dns |-> c.dns, domains |-> @.domains]]
      [] c.method = "SetLinkDomains" ->
            [l EXCEPT ![c.index] = [dns |-> @.dns, domains |-> c.domains]]
      [] c.method = "RevertLink" ->
            [l EXCEPT ![c.index] = DefaultLink]

Last(q) == q[Len(q)]

\* the context's deadline has passed
Expired(p) == elapsed[p] >= systemdSetTimeout

\* the values call.Err can take when CallWithContext returns now: the
\* reply's error if a reply has arrived, ctx.Err() if the deadline passed
CallErrs(p) ==
    (IF req[p] \notin {"none", "sent"} THEN {req[p]} ELSE {})
        \cup (IF Expired(p) THEN {DeadlineExceeded} ELSE {})

(***************************************************************************)
(* Steps of a caller.                                                      *)
(***************************************************************************)
\* return err: the invocation is over; an unanswered request is abandoned
Return(p, err) ==
    /\ pc' = [pc EXCEPT ![p] = "idle"]
    /\ ret' = [ret EXCEPT ![p] = err]
    /\ req' = [req EXCEPT ![p] = "none"]

\* the time left on ctx, created with systemdSetTimeout at the entry
TimeLeft(p) ==
    IF elapsed[p] >= systemdSetTimeout THEN 0
    ELSE systemdSetTimeout - elapsed[p]

\* call c as made with ctx: left is the time ctx has left when it is made
WithContext(p, c) ==
    [method |-> c.method, index |-> c.index, dns |-> c.dns,
     domains |-> c.domains, left |-> TimeLeft(p)]

\* resolved.CallWithContext(ctx, ...): the request goes out, the caller waits
Issue(p, c, at) ==
    /\ issued' = [issued EXCEPT ![p] = Append(@, WithContext(p, c))]
    /\ req' = [req EXCEPT ![p] = "sent"]
    /\ pc' = [pc EXCEPT ![p] = at]
    /\ UNCHANGED ret

\* entry of an operation: ctx, cancel := context.WithTimeout(...)
Enter(p, o, ss, ds) ==
    /\ pc[p] = "idle"
    /\ pc' = [pc EXCEPT ![p] = "detect"]
    /\ op' = [op EXCEPT ![p] = o]
    /\ servers' = [servers EXCEPT ![p] = ss]
    /\ domains' = [domains EXCEPT ![p] = ds]
    /\ elapsed' = [elapsed EXCEPT ![p] = 0]
    /\ ifIndex' = [ifIndex EXCEPT ![p] = NoIface]
    /\ req' = [req EXCEPT ![p] = "none"]
    /\ issued' = [issued EXCEPT ![p] = <<>>]
    /\ errs' = [errs EXCEPT ![p] = <<>>]
    /\ steps' = [steps EXCEPT ![p] = <<>>]
    /\ ret' = [ret EXCEPT ![p] = NotReturned]
    /\ UNCHANGED << env, link >>

\* systemdUpDNS(servers, domains) is called
BeginUp(p, ss, ds) == Enter(p, "up", ss, ds)

\* systemdDownDNS() is called
BeginDown(p) == Enter(p, "down", <<>>, <<>>)

\* Detect without the check of systemdIsActive
Detect_Unchecked(p) ==
    /\ pc[p] = "detect"
    /\ steps' = [steps EXCEPT ![p] = Append(@, "os.Readlink")]
    /\ pc' = [pc EXCEPT ![p] = "connect"]
    /\ UNCHANGED << env, link, args, elapsed, ifIndex, issued, errs, ret, req >>

\* if !systemdIsActive() { return errNotSystemd }
Detect(p) ==
    /\ pc[p] = "detect"
    /\ steps' = [steps EXCEPT ![p] = Append(@, "os.Readlink")]
    /\ IF systemdIsActive(resolvConf)
       THEN /\ pc' = [pc EXCEPT ![p] = "connect"]
            /\ UNCHANGED << ret, req >>
       ELSE Return(p, errNotSystemd)
    /\ UNCHANGED << env, link, args, elapsed, ifIndex, issued, errs >>

\* Connect reporting a failed connection as resolved not being in use
Connect_FailureAsNotSystemd(p) ==
    /\ pc[p] = "connect"
    /\ ~busStalled
    /\ steps' = [steps EXCEPT ![p] = Append(@, "dbus.SystemBus")]
    /\ \E connected \in BOOLEAN :
          IF connected
          THEN /\ pc' = [pc EXCEPT ![p] = "resolve"]
               /\ UNCHANGED << ret, req >>
          ELSE Return(p, errNotSystemd)
    /\ UNCHANGED << env, link, args, elapsed, ifIndex, issued, errs >>

\* conn, err := dbus.SystemBus(): takes no context; it completes (with a
\* connection or an error) only while the transport makes progress
Connect(p) ==
    /\ pc[p] = "connect"
    /\ ~busStalled
    /\ steps' = [steps EXCEPT ![p] = Append(@, "dbus.SystemBus")]
    /\ \E connected \in BOOLEAN :
          IF connected
          THEN /\ pc' = [pc EXCEPT ![p] = "resolve"]
               /\ UNCHANGED << ret, req >>
          ELSE Return(p, Errorf("connecting to system bus", ConnectFailure))
    /\ UNCHANGED << env, link, args, elapsed, ifIndex, issued, errs >>

\* what interfaces.Tailscale() can return on this host: an error of the
\* lookup, or the Tailscale interface (NoIface is a nil iface) and no error
TailscaleOutcomes ==
    { [iface |-> NoIface, err |-> LookupFailure],
      [iface |-> tsIface, err |-> "nil"] }

\* ResolveWith whose Revert clears the nameservers with SetLinkDNS
ResolveWith_RevertBySet(p, out) ==
    /\ pc[p] = "resolve"
    /\ steps' = [steps EXCEPT ![p] = Append(@, "interfaces.Tailscale")]
    /\ IF out.err # "nil"
       THEN /\ Return(p, Errorf("getting interface index", out.err))
            /\ UNCHANGED << ifIndex, issued >>
       ELSE IF out.iface = NoIface
       THEN /\ Return(p, errNotReady)
            /\ UNCHANGED << ifIndex, issued >>
       ELSE /\ ifIndex' = [ifIndex EXCEPT ![p] = out.iface]
            /\ IF op[p] = "up"
               THEN Issue(p, CallSetLinkDNS(out.iface,
                                 linkNameservers(servers[p])), "SetLinkDNS")
               ELSE Issue(p, CallSetLinkDNS(out.iface, <<>>), "RevertLink")
    /\ UNCHANGED << env, link, args, elapsed, errs >>

\* ResolveWith reporting a failed lookup as an interface that is not ready
ResolveWith_FailureAsNotReady(p, out) ==
    /\ pc[p] = "resolve"
    /\ steps' = [steps EXCEPT ![p] = Append(@, "interfaces.Tailscale")]
    /\ IF out.err # "nil" \/ out.iface = NoIface
       THEN /\ Return(p, errNotReady)
            /\ UNCHANGED << ifIndex, issued >>
       ELSE /\ ifIndex' = [ifIndex EXCEPT ![p] = out.iface]
            /\ IF op[p] = "up"
               THEN Issue(p, CallSetLinkDNS(out.iface,
                                 linkNameservers(servers[p])), "SetLinkDNS")
               ELSE Issue(p, CallRevertLink(out.iface), "RevertLink")
    /\ UNCHANGED << env, link, args, elapsed, errs >>

\* ResolveWith reporting a nil iface as a failed lookup
ResolveWith_NilAsFailure(p, out) ==
    /\ pc[p] = "resolve"
    /\ steps' = [steps EXCEPT ![p] = Append(@, "interfaces.Tailscale")]
    /\ IF out.err # "nil" \/ out.iface = NoIface
       THEN /\ Return(p, Errorf("getting interface index", out.err))
            /\ UNCHANGED << ifIndex, issued >>
       ELSE /\ ifIndex' = [ifIndex EXCEPT ![p] = out.iface]
            /\ IF op[p] = "up"
               THEN Issue(p, CallSetLinkDNS(out.iface,
                                 linkNameservers(servers[p])), "SetLinkDNS")
               ELSE Issue(p, CallRevertLink(out.iface), "RevertLink")
    /\ UNCHANGED << env, link, args, elapsed, errs >>

\* _, iface, err := interfaces.Tailscale() returned out; with an interface,
\* the code up to the first CallWithContext: SetLinkDNS of the marshalled
\* servers in systemdUpDNS, RevertLink in systemdDownDNS
ResolveWith(p, out) ==
    /\ pc[p] = "resolve"
    /\ steps' = [steps EXCEPT ![p] = Append(@, "interfaces.Tailscale")]
    /\ IF out.err # "nil"
       THEN /\ Return(p, Errorf("getting interface index", out.err))
            /\ UNCHANGED << ifIndex, issued >>
       ELSE IF out.iface = NoIface
       THEN /\ Return(p, errNotReady)
            /\ UNCHANGED << ifIndex, issued >>
       ELSE /\ ifIndex' = [ifIndex EXCEPT ![p] = out.iface]
            /\ IF op[p] = "up"
               THEN Issue(p, CallSetLinkDNS(out.iface,
                                 linkNameservers(servers[p])), "SetLinkDNS")
               ELSE Issue(p, CallRevertLink(out.iface), "RevertLink")
    /\ UNCHANGED << env, link, args, elapsed, errs >>

Resolve(p) == \E out \in TailscaleOutcomes : ResolveWith(p, out)

\* SetLinkDNSReturns looking the interface up again for SetLinkDomains
SetLinkDNSReturns_ResolvesAgain(p) ==
    /\ pc[p] = "SetLinkDNS"
    /\ \E err \in CallErrs(p) :
          /\ errs' = [errs EXCEPT ![p] = Append(@, err)]
          /\ IF err # "nil"
             THEN /\ Return(p, Errorf("SetLinkDNS", err))
                  /\ UNCHANGED issued
             ELSE Issue(p, CallSetLinkDomains(tsIface,
                               linkDomains(domains[p])), "SetLinkDomains")
    /\ UNCHANGED << env, link, args, elapsed, ifIndex, steps >>

\* SetLinkDNSReturns making the call a second time when it failed
SetLinkDNSReturns_RetriesOnce(p) ==
    /\ pc[p] = "SetLinkDNS"
    /\ \E err \in CallErrs(p) :
          /\ errs' = [errs EXCEPT ![p] = Append(@, err)]
          /\ IF err # "nil" /\ Len(issued[p]) = 1
             THEN Issue(p, CallSetLinkDNS(ifIndex[p],
                               linkNameservers(servers[p])), "SetLinkDNS")
             ELSE IF err # "nil"
             THEN /\ Return(p, Errorf("SetLinkDNS", err))
                  /\ UNCHANGED issued
             ELSE Issue(p, CallSetLinkDomains(ifIndex[p],
                               linkDomains(domains[p])), "SetLinkDomains")
    /\ UNCHANGED << env, link, args, elapsed, ifIndex, steps >>

\* SetLinkDNSReturns giving SetLinkDomains a timeout of its own
SetLinkDNSReturns_FreshTimeout(p) ==
    /\ pc[p] = "SetLinkDNS"
    /\ \E err \in CallErrs(p) :
          /\ errs' = [errs EXCEPT ![p] = Append(@, err)]
          /\ IF err # "nil"
             THEN /\ Return(p, Errorf("SetLinkDNS", err))
                  /\ UNCHANGED << issued, elapsed >>
             ELSE /\ elapsed' = [elapsed EXCEPT ![p] = 0]
                  /\ issued' = [issued EXCEPT ![p] =
                        Append(@, [method |-> "SetLinkDomains",
                                   index |-> ifIndex[p], dns |-> <<>>,
                                   domains |-> linkDomains(domains[p]),
                                   left |-> systemdSetTimeout])]
                  /\ req' = [req EXCEPT ![p] = "sent"]
                  /\ pc' = [pc EXCEPT ![p] = "SetLinkDomains"]
                  /\ UNCHANGED ret
    /\ UNCHANGED << env, link, args, ifIndex, steps >>

\* SetLinkDNSReturns going on to SetLinkDomains whatever call.Err is
SetLinkDNSReturns_ErrIgnored(p) ==
    /\ pc[p] = "SetLinkDNS"
    /\ \E err \in CallErrs(p) :
          /\ errs' = [errs EXCEPT ![p] = Append(@, err)]
          /\ Issue(p, CallSetLinkDomains(ifIndex[p],
                          linkDomains(domains[p])), "SetLinkDomains")
    /\ UNCHANGED << env, link, args, elapsed, ifIndex, steps >>

\* the SetLinkDNS call returns: an error is wrapped and returned, otherwise
\* the domains are marshalled and SetLinkDomains is called
SetLinkDNSReturns(p) ==
    /\ pc[p] = "SetLinkDNS"
    /\ \E err \in CallErrs(p) :
          /\ errs' = [errs EXCEPT ![p] = Append(@, err)]
          /\ IF err # "nil"
             THEN /\ Return(p, Errorf("SetLinkDNS", err))
                  /\ UNCHANGED issued
             ELSE Issue(p, CallSetLinkDomains(ifIndex[p],
                               linkDomains(domains[p])), "SetLinkDomains")
    /\ UNCHANGED << env, link, args, elapsed, ifIndex, steps >>

\* SetLinkDomainsReturns wrapping the error with the name of the first call
SetLinkDomainsReturns_NamedSetLinkDNS(p) ==
    /\ pc[p] = "SetLinkDomains"
    /\ \E err \in CallErrs(p) :
          /\ errs' = [errs EXCEPT ![p] = Append(@, err)]
          /\ IF err # "nil"
             THEN Return(p, Errorf("SetLinkDNS", err))
             ELSE Return(p, NoError)
    /\ UNCHANGED << env, link, args, elapsed, ifIndex, issued, steps >>

\* SetLinkDomainsReturns dropping the error of a reply that came late
SetLinkDomainsReturns_LateIsSuccess(p) ==
    /\ pc[p] = "SetLinkDomains"
    /\ \E err \in CallErrs(p) :
          /\ errs' = [errs EXCEPT ![p] = Append(@, err)]
          /\ IF err \in CallFailures
             THEN Return(p, Errorf("SetLinkDomains", err))
             ELSE Return(p, NoError)
    /\ UNCHANGED << env, link, args, elapsed, ifIndex, issued, steps >>

\* SetLinkDomainsReturns undoing the nameservers when the call failed
SetLinkDomainsReturns_RollsBack(p) ==
    /\ pc[p] = "SetLinkDomains"
    /\ \E err \in CallErrs(p) :
          /\ errs' = [errs EXCEPT ![p] = Append(@, err)]
          /\ IF err # "nil"
             THEN Issue(p, CallRevertLink(ifIndex[p]), "RevertLink")
             ELSE /\ Return(p, NoError)
                  /\ UNCHANGED issued
    /\ UNCHANGED << env, link, args, elapsed, ifIndex, steps >>

\* the SetLinkDomains call returns
SetLinkDomainsReturns(p) ==
    /\ pc[p] = "SetLinkDomains"
    /\ \E err \in CallErrs(p) :
          /\ errs' = [errs EXCEPT ![p] = Append(@, err)]
          /\ IF err # "nil"
             THEN Return(p, Errorf("SetLinkDomains", err))
             ELSE Return(p, NoError)
    /\ UNCHANGED << env, link, args, elapsed, ifIndex, issued, steps >>

\* the RevertLink call returns
RevertLinkReturns(p) ==
    /\ pc[p] = "RevertLink"
    /\ \E err \in CallErrs(p) :
          /\ errs' = [errs EXCEPT ![p] = Append(@, err)]
          /\ IF err # "nil"
             THEN Return(p, Errorf("RevertLink", err))
             ELSE Return(p, NoError)
    /\ UNCHANGED << env, link, args, elapsed, ifIndex, issued, steps >>

(***************************************************************************)
(* Steps of the environment.                                               *)
(***************************************************************************)
\* the service handles p's request: it accepts it (the settings change and
\* the reply carries no error) or the call fails (no change)
Serve(p) ==
    /\ req[p] = "sent"
    /\ ~busStalled
    /\ \E outcome \in {"nil"} \cup CallFailures :
          /\ req' = [req EXCEPT ![p] = outcome]
          /\ link' = IF outcome = "nil" THEN Accept(link, Last(issued[p]))
                     ELSE link
    /\ UNCHANGED << env, pc, args, elapsed, ifIndex, log, ret >>

\* time passes for every invocation in flight
Tick ==
    /\ \E p \in Procs : pc[p] # "idle" /\ ~Expired(p)
    /\ elapsed' = [p \in Procs |->
                      IF pc[p] # "idle" /\ ~Expired(p)
                      THEN elapsed[p] + 1 ELSE elapsed[p]]
    /\ UNCHANGED << env, link, pc, args, ifIndex, req, log, ret >>

\* the Tailscale interface appears, disappears or gets another index
SetIface(i) ==
    /\ i # tsIface
    /\ tsIface' = i
    /\ UNCHANGED << resolvConf, busStalled, link, pc, args, elapsed, ifIndex,
                    req, log, ret >>

\* /etc/resolv.conf is pointed elsewhere, removed or replaced
Relink(rl) ==
    /\ rl # resolvConf
    /\ resolvConf' = rl
    /\ UNCHANGED << tsIface, busStalled, link, pc, args, elapsed, ifIndex,
                    req, log, ret >>

\* the bus transport stops making progress
BusStalls ==
    /\ ~busStalled
    /\ busStalled' = TRUE
    /\ UNCHANGED << resolvConf, tsIface, link, pc, args, elapsed, ifIndex,
                    req, log, ret >>

\* the bus transport makes progress again
BusRecovers ==
    /\ busStalled
    /\ busStalled' = FALSE
    /\ UNCHANGED << resolvConf, tsIface, link, pc, args, elapsed, ifIndex,
                    req, log, ret >>

(***************************************************************************)
(* Specifications.                                                         *)
(***************************************************************************)
\* the state before any invocation, but for the host's resolv.conf link
Quiet ==
    /\ tsIface \in Indices \cup {NoIface}
    /\ busStalled = FALSE
    /\ link = [i \in Indices |-> DefaultLink]
    /\ pc = [p \in Procs |-> "idle"]
    /\ op = [p \in Procs |-> "down"]
    /\ servers = [p \in Procs |-> <<>>]
    /\ domains = [p \in Procs |-> <<>>]
    /\ elapsed = [p \in Procs |-> 0]
    /\ ifIndex = [p \in Procs |-> NoIface]
    /\ req = [p \in Procs |-> "none"]
    /\ issued = [p \in Procs |-> <<>>]
    /\ errs = [p \in Procs |-> <<>>]
    /\ steps = [p \in Procs |-> <<>>]
    /\ ret = [p \in Procs |-> NotReturned]

Init ==
    /\ resolvConf \in FewReadlinkOutcomes
    /\ Quiet

\* a step of caller p that is already in its invocation
Step(p) ==
    \/ Detect(p)
    \/ Connect(p)
    \/ Resolve(p)
    \/ SetLinkDNSReturns(p)
    \/ SetLinkDomainsReturns(p)
    \/ RevertLinkReturns(p)

Environment ==
    \/ \E p \in Procs : Serve(p)
    \/ Tick
    \/ \E i \in Indices \cup {NoIface} : SetIface(i)
    \/ BusStalls
    \/ BusRecovers
    \/ \E rl \in FewReadlinkOutcomes : Relink(rl)

\* the one caller of Spec: operations are invoked one at a time
Caller == "a"

Next ==
    \/ \E ss \in FewServerLists, ds \in FewDomainLists : BeginUp(Caller, ss, ds)
    \/ BeginDown(Caller)
    \/ Step(Caller)
    \/ Environment

Spec == Init /\ [][Next]_vars

(***************************************************************************)
(* DetectSpec: systemdIsActive on every drawn outcome of the readlink.     *)
(***************************************************************************)
DetectInit ==
    /\ resolvConf \in ReadlinkOutcomes
    /\ Quiet

DetectNext ==
    \/ \E ss \in FewServerLists, ds \in FewDomainLists : BeginUp(Caller, ss, ds)
    \/ BeginDown(Caller)
    \/ Step(Caller)
    \/ Serve(Caller)
    \/ Tick

DetectSpec == DetectInit /\ [][DetectNext]_vars

(***************************************************************************)
(* MarshalSpec: one systemdUpDNS on every drawn pair of arguments, on a    *)
(* host where resolved is active.                                          *)
(***************************************************************************)
MarshalInit ==
    /\ resolvConf = [err |-> "nil", dst |-> systemdStubPaths[3]]
    /\ tsIface \in Indices
    /\ busStalled = FALSE
    /\ link = [i \in Indices |-> DefaultLink]
    /\ pc = [p \in Procs |-> IF p = Caller THEN "detect" ELSE "idle"]
    /\ op = [p \in Procs |-> IF p = Caller THEN "up" ELSE "down"]
    /\ \E ss \in ServerLists :
          servers = [p \in Procs |-> IF p = Caller THEN ss ELSE <<>>]
    /\ \E ds \in DomainLists :
          domains = [p \in Procs |-> IF p = Caller THEN ds ELSE <<>>]
    /\ elapsed = [p \in Procs |-> 0]
    /\ ifIndex = [p \in Procs |-> NoIface]
    /\ req = [p \in Procs |-> "none"]
    /\ issued = [p \in Procs |-> <<>>]
    /\ errs = [p \in Procs |-> <<>>]
    /\ steps = [p \in Procs |-> <<>>]
    /\ ret = [p \in Procs |-> NotReturned]

MarshalNext ==
    \/ Detect(Caller)
    \/ Connect(Caller)
    \/ Resolve(Caller)
    \/ SetLinkDNSReturns(Caller)
    \/ SetLinkDomainsReturns(Caller)
    \/ Serve(Caller)

MarshalSpec == MarshalInit /\ [][MarshalNext]_vars

(***************************************************************************)
(* Properties.                                                             *)
(***************************************************************************)
\* the methods of a sequence of calls
Methods(q) == [i \in 1..Len(q) |-> q[i].method]

\* p's invocation has returned
Returned(p) == pc[p] = "idle" /\ ret[p] # NotReturned

\* the blocking calls of an invocation up to the interface resolution
UpToResolve == << "os.Readlink", "dbus.SystemBus", "interfaces.Tailscale" >>

C1_AfterNotManaged ==
    \A p \in Procs :
        ret[p] = errNotSystemd =>
            /\ pc[p] = "idle"
            /\ steps[p] = << "os.Readlink" >>
            /\ ifIndex[p] = NoIface
            /\ issued[p] = <<>>
            /\ errs[p] = <<>>
            /\ req[p] = "none"

C1_InactiveStep ==
    \A p \in Procs :
        (pc[p] = "detect" /\ pc'[p] # "detect" /\ ~systemdIsActive(resolvConf))
            => /\ pc'[p] = "idle"
               /\ ret'[p] = errNotSystemd
               /\ link' = link

\* C1: the step of systemdUpDNS / systemdDownDNS that finds the detector
\* inactive returns errNotSystemd and leaves the per-link settings as they
\* were; an invocation that returned errNotSystemd has made no call but the
\* readlink: no interface resolution, no remote call.
C1_InactiveIsNotManaged == []C1_AfterNotManaged /\ [][C1_InactiveStep]_vars

\* an Apply returned errNotSystemd on a host whose link 7 carries settings
C1_Witness ==
    \E p \in Procs :
        /\ Returned(p) /\ op[p] = "up" /\ ret[p] = errNotSystemd
        /\ link[7] # DefaultLink

C2_AfterNotReady ==
    \A p \in Procs :
        ret[p] = errNotReady =>
            /\ pc[p] = "idle"
            /\ steps[p] = UpToResolve
            /\ issued[p] = <<>>
            /\ errs[p] = <<>>
            /\ req[p] = "none"

C2_NilIfaceStep ==
    \A p \in Procs : \A out \in TailscaleOutcomes :
        (out.err = "nil" /\ out.iface = NoIface /\ ResolveWith(p, out))
            => /\ pc'[p] = "idle"
               /\ ret'[p] = errNotReady
               /\ issued'[p] = <<>>
               /\ link' = link

\* C2: an interface resolution that yields no error and no interface makes
\* the invocation return errNotReady, and an invocation that returned
\* errNotReady has issued no remote call.
C2_NoIfaceIsNotReady == []C2_AfterNotReady /\ [][C2_NilIfaceStep]_vars

\* a Revert returned errNotReady on a host without Tailscale interface
C2_Witness ==
    \E p \in Procs :
        /\ Returned(p) /\ op[p] = "down" /\ ret[p] = errNotReady
        /\ tsIface = NoIface

\* C3 as stated: an Apply that resolved its interface and returned has
\* issued exactly SetLinkDNS and then SetLinkDomains on the resolved index,
\* and returned nil iff both calls reported no error.
C3_ExactlyTwoCalls ==
    \A p \in Procs :
        (Returned(p) /\ op[p] = "up" /\ ifIndex[p] # NoIface) =>
            /\ Methods(issued[p]) = << "SetLinkDNS", "SetLinkDomains" >>
            /\ \A i \in 1..Len(issued[p]) : issued[p][i].index = ifIndex[p]
            /\ ret[p] = NoError <=>
                  (Len(errs[p]) = 2 /\ errs[p][1] = "nil" /\ errs[p][2] = "nil")

\* C3, amended: an Apply that resolved its interface issues SetLinkDNS and,
\* only once SetLinkDNS reported no error, SetLinkDomains, both on the
\* resolved index and nothing else: two calls in this order when the first
\* reports no error, one when it reports an error; it returns nil iff both
\* calls were issued and reported no error.
C3_TwoCallsInOrder ==
    \A p \in Procs :
        (op[p] = "up" /\ ifIndex[p] # NoIface) =>
            /\ Methods(issued[p]) \in
                  { << "SetLinkDNS" >>, << "SetLinkDNS", "SetLinkDomains" >> }
            /\ \A i \in 1..Len(issued[p]) : issued[p][i].index = ifIndex[p]
            /\ Len(issued[p]) = 2 => (Len(errs[p]) >= 1 /\ errs[p][1] = "nil")
            /\ Returned(p) =>
                  /\ Len(errs[p]) = Len(issued[p])
                  /\ Len(issued[p]) = 2 <=> errs[p][1] = "nil"
                  /\ ret[p] = NoError <=>
                        (Len(errs[p]) = 2 /\ errs[p][2] = "nil")

\* an Apply returned nil after both calls
C3_Witness ==
    \E p \in Procs :
        /\ Returned(p) /\ op[p] = "up" /\ ret[p] = NoError
        /\ Methods(issued[p]) = << "SetLinkDNS", "SetLinkDomains" >>
        /\ errs[p] = << "nil", "nil" >>

\* C4: when SetLinkDNS ends with the context's deadline error, the deadline
\* has passed, Apply has returned that error wrapped as the SetLinkDNS
\* step's (its cause is none of the remote or transport failures) and
\* SetLinkDNS is the only call the invocation issued.
C4_FirstCallTimeout ==
    \A p \in Procs :
        (op[p] = "up" /\ Len(errs[p]) >= 1 /\ errs[p][1] = DeadlineExceeded) =>
            /\ Expired(p)
            /\ pc[p] = "idle"
            /\ ret[p] = Errorf("SetLinkDNS", DeadlineExceeded)
            /\ ret[p].cause \notin CallFailures
            /\ Methods(issued[p]) = << "SetLinkDNS" >>
            /\ errs[p] = << DeadlineExceeded >>

\* an Apply whose SetLinkDNS timed out has returned
C4_Witness ==
    \E p \in Procs :
        /\ Returned(p) /\ op[p] = "up"
        /\ errs[p] = << DeadlineExceeded >>
        /\ ret[p].cause = DeadlineExceeded

\* the steps in which an invocation waits for the bus
BusSteps == { "connect", "SetLinkDNS", "SetLinkDomains", "RevertLink" }

\* C5: every blocking bus step is bounded by the operation's timeout: an
\* invocation that waits for the bus after its deadline has passed can go
\* on (and so returns).
C5_BusStepsBounded ==
    \A p \in Procs :
        (pc[p] \in BusSteps /\ Expired(p)) => ENABLED Step(p)

\* C6: when SetLinkDNS reported no error and SetLinkDomains an error, Apply
\* has returned that error as the SetLinkDomains step's, the two calls are
\* all it issued (no RevertLink, nothing pending) and the link still has
\* the nameservers of its SetLinkDNS.
C6_NoRollback ==
    \A p \in Procs :
        (op[p] = "up" /\ Len(errs[p]) >= 2
            /\ errs[p][1] = "nil" /\ errs[p][2] # "nil") =>
            /\ pc[p] = "idle"
            /\ ret[p] = Errorf("SetLinkDomains", errs[p][2])
            /\ ret[p] # NoError
            /\ Methods(issued[p]) = << "SetLinkDNS", "SetLinkDomains" >>
            /\ Len(errs[p]) = 2
            /\ req[p] = "none"
            /\ link[ifIndex[p]].dns = issued[p][1].dns

\* an Apply failed in SetLinkDomains and left its nameservers, without its
\* domains, on the link
C6_Witness ==
    \E p \in Procs :
        /\ Returned(p) /\ op[p] = "up"
        /\ errs[p] = << "nil", RemoteRejection >>
        /\ link[ifIndex[p]].dns = linkNameservers(servers[p])
        /\ link[ifIndex[p]].dns # <<>>
        /\ link[ifIndex[p]].domains # issued[p][2].domains

\* the readlink gave a target that is, verbatim, one of the four stub paths
C7_IsStub ==
    /\ resolvConf.err = "nil"
    /\ resolvConf.dst \in { "/lib/systemd/resolv.conf",
                            "/usr/lib/systemd/resolv.conf",
                            "/run/systemd/resolve/stub-resolv.conf",
                            "/var/run/systemd/resolve/stub-resolv.conf" }

\* C7: systemdIsActive is a boolean that is true exactly when the readlink
\* succeeded with a target equal to one of the four stub paths; a caller
\* goes past the detector exactly then, and otherwise gets errNotSystemd
\* after the readlink alone, whatever made the readlink fail.
C7_ActiveIffStub ==
    /\ systemdIsActive(resolvConf) \in BOOLEAN
    /\ systemdIsActive(resolvConf) <=> C7_IsStub
    /\ \A p \in Procs :
          steps[p] # <<>> =>
              IF C7_IsStub
              THEN ret[p] # errNotSystemd
              ELSE Returned(p) /\ ret[p] = errNotSystemd
                       /\ steps[p] = << "os.Readlink" >>

\* a caller went past the detector on the /var/run variant of the stub
C7_Witness ==
    \E p \in Procs :
        /\ pc[p] = "connect"
        /\ resolvConf = [err |-> "nil",
                         dst |-> "/var/run/systemd/resolve/stub-resolv.conf"]

\* the wire form the claim gives for server s
C8_Encodes(s, n) ==
    IF s.is4
    THEN /\ n.Family = AF_INET
         /\ n.Address = << s.a16[13], s.a16[14], s.a16[15], s.a16[16] >>
    ELSE /\ n.Family = AF_INET6
         /\ n.Address = s.a16

\* C8: the nameservers of the SetLinkDNS call are as many as the servers
\* argument and the i-th encodes the i-th server: AF_INET with the last 4
\* bytes of the 16-byte form for a v4 address, AF_INET6 with all 16 bytes
\* otherwise; family and length agree in every entry.
C8_NameserversMarshalled ==
    \A p \in Procs :
        (op[p] = "up" /\ issued[p] # <<>>) =>
            LET ns == issued[p][1].dns
            IN  /\ issued[p][1].method = "SetLinkDNS"
                /\ Len(ns) = Len(servers[p])
                /\ \A i \in 1..Len(ns) :
                      /\ C8_Encodes(servers[p][i], ns[i])
                      /\ \/ ns[i].Family = AF_INET /\ Len(ns[i].Address) = 4
                         \/ ns[i].Family = AF_INET6 /\ Len(ns[i].Address) = 16

\* SetLinkDNS went out for servers = [1.1.1.1, 2606:4700:4700::1111]
C8_Witness ==
    \E p \in Procs :
        /\ servers[p] = << IP_1111, IP_CF6 >>
        /\ Len(issued[p]) >= 1
        /\ issued[p][1].dns =
              << [Family |-> 2, Address |-> << 1, 1, 1, 1 >>],
                 [Family |-> 10,
                  Address |-> << 38, 6, 71, 0, 71, 0, 0, 0,
                                 0, 0, 0, 0, 0, 0, 17, 17 >>] >>

\* C9: the domains of the SetLinkDomains call are as many as the domains
\* argument, the i-th carries the i-th domain unchanged, and every
\* routing-only flag is false.
C9_DomainsMarshalled ==
    \A p \in Procs :
        (op[p] = "up" /\ Len(issued[p]) >= 2) =>
            LET ds == issued[p][2].domains
            IN  /\ issued[p][2].method = "SetLinkDomains"
                /\ Len(ds) = Len(domains[p])
                /\ \A i \in 1..Len(ds) :
                      /\ ds[i].Domain = domains[p][i]
                      /\ ds[i].RoutingOnly = FALSE

\* SetLinkDomains went out for domains = ["ts.net", "corp.example."]
C9_Witness ==
    \E p \in Procs :
        /\ domains[p] = << "ts.net", "corp.example." >>
        /\ Len(issued[p]) = 2
        /\ issued[p][2].domains =
              << [Domain |-> "ts.net", RoutingOnly |-> FALSE],
                 [Domain |-> "corp.example.", RoutingOnly |-> FALSE] >>

\* C10: a Revert that resolved its interface issues one call, RevertLink on
\* the resolved index; it returns nil iff that call reported no error, and
\* then the link has no per-link setting.
C10_RevertIsOneCall ==
    \A p \in Procs :
        (op[p] = "down" /\ ifIndex[p] # NoIface) =>
            /\ Len(issued[p]) = 1
            /\ issued[p][1].method = "RevertLink"
            /\ issued[p][1].index = ifIndex[p]
            /\ Returned(p) =>
                  /\ Len(errs[p]) = 1
                  /\ ret[p] = NoError <=> errs[p][1] = "nil"
                  /\ ret[p] = NoError => link[ifIndex[p]] = DefaultLink

\* a Revert returned nil for link 7 while link 3 keeps an earlier Apply
C10_Witness ==
    \E p \in Procs :
        /\ Returned(p) /\ op[p] = "down" /\ ret[p] = NoError
        /\ ifIndex[p] = 7
        /\ link[7] = DefaultLink
        /\ link[3] # DefaultLink

C11_AfterResolutionFailure ==
    \A p \in Procs :
        ret[p].prefix = "getting interface index" =>
            /\ pc[p] = "idle"
            /\ ret[p].cause = LookupFailure
            /\ ret[p] # errNotReady
            /\ steps[p] = UpToResolve
            /\ issued[p] = <<>>
            /\ errs[p] = <<>>
            /\ req[p] = "none"

C11_ResolveStep ==
    \A p \in Procs : \A out \in TailscaleOutcomes :
        ResolveWith(p, out) =>
            /\ out.err # "nil" =>
                  /\ ret'[p] = Errorf("getting interface index", out.err)
                  /\ ret'[p] # errNotReady
                  /\ issued'[p] = <<>> /\ link' = link
            /\ (out.err = "nil" /\ out.iface = NoIface) =>
                  /\ ret'[p] = errNotReady
                  /\ ret'[p].prefix # "getting interface index"
                  /\ issued'[p] = <<>> /\ link' = link

\* C11: a failed interface lookup is returned as "getting interface index"
\* wrapping the lookup's error, never as errNotReady; a lookup without
\* error and without interface is returned as errNotReady; the two results
\* differ and in both the invocation has issued no remote call.
C11_FailureIsNotNotReady ==
    []C11_AfterResolutionFailure /\ [][C11_ResolveStep]_vars

\* an Apply returned the lookup's failure although the interface exists
C11_Witness ==
    \E p \in Procs :
        /\ Returned(p) /\ op[p] = "up"
        /\ ret[p] = Errorf("getting interface index", LookupFailure)
        /\ tsIface # NoIface

(***************************************************************************)
(* ConcSpec: two callers, each invoking one operation, with nothing that   *)
(* keeps the two invocations apart; resolved is active and the Tailscale   *)
(* interface exists and keeps its index.                                   *)
(***************************************************************************)
ConcInit ==
    /\ resolvConf = [err |-> "nil", dst |-> systemdStubPaths[3]]
    /\ Quiet
    /\ tsIface # NoIface

\* p has not invoked an operation yet
FirstCall(p) == pc[p] = "idle" /\ ret[p] = NotReturned

ConcNext ==
    \/ \E p \in Procs, ss \in FewServerLists, ds \in FewDomainLists :
          FirstCall(p) /\ BeginUp(p, ss, ds)
    \/ \E p \in Procs : FirstCall(p) /\ BeginDown(p)
    \/ \E p \in Procs : Step(p)
    \/ \E p \in Procs : Serve(p)
    \/ Tick

ConcSpec == ConcInit /\ [][ConcNext]_vars

\* p's invocation was an Apply that returned nil
Applied(p) == Returned(p) /\ op[p] = "up" /\ ret[p] = NoError

\* p's invocation was a Revert that returned nil
Reverted(p) == Returned(p) /\ op[p] = "down" /\ ret[p] = NoError

\* C12: Apply and Revert running together on one interface are not one
\* transaction each: when both have returned nil the link has any of the
\* Apply's nameservers or none and any of its domains or none, among them
\* the Apply's domains without its nameservers (RevertLink taking effect
\* between SetLinkDNS and SetLinkDomains); only the Apply's nameservers
\* without its domains cannot be left.
C12_ApplyRevertOutcomes ==
    \A p, q \in Procs :
        (Applied(p) /\ Reverted(q) /\ ifIndex[p] = ifIndex[q]) =>
            LET l == link[ifIndex[p]]
                ns == issued[p][1].dns
                ds == issued[p][2].domains
            IN  /\ l.dns \in { <<>>, ns }
                /\ l.domains \in { <<>>, ds }
                /\ l.dns = ns => l.domains = ds

\* Apply and Revert both returned nil and the link has the Apply's search
\* domains but not its nameservers
C12_Witness ==
    \E p, q \in Procs :
        /\ Applied(p) /\ Reverted(q) /\ ifIndex[p] = ifIndex[q]
        /\ servers[p] = << IP_1111, IP_CF6 >>
        /\ link[ifIndex[p]].dns = <<>>
        /\ link[ifIndex[p]].domains = linkDomains(domains[p])
        /\ link[ifIndex[p]].domains # <<>>

\* C13: two Applies running together on one interface are not one
\* transaction each: when both have returned nil the link has the
\* nameservers of one of them and the domains of one of them, and these
\* can be the nameservers of one and the domains of the other.
C13_TwoAppliesOutcomes ==
    \A p, q \in Procs :
        (p # q /\ Applied(p) /\ Applied(q) /\ ifIndex[p] = ifIndex[q]) =>
            LET l == link[ifIndex[p]]
            IN  /\ l.dns \in { issued[p][1].dns, issued[q][1].dns }
                /\ l.domains \in { issued[p][2].domains, issued[q][2].domains }

\* both Applies returned nil and the link has the nameservers of the one
\* and the search domains of the other, which neither asked for
C13_Witness ==
    \E p, q \in Procs :
        /\ p # q /\ Applied(p) /\ Applied(q) /\ ifIndex[p] = ifIndex[q]
        /\ servers[p] # servers[q]
        /\ domains[p] # domains[q]
        /\ link[ifIndex[p]].dns = linkNameservers(servers[p])
        /\ link[ifIndex[p]].domains = linkDomains(domains[q])
        /\ link[ifIndex[p]].dns # linkNameservers(servers[q])
        /\ link[ifIndex[p]].domains # linkDomains(domains[p])

\* C14: with operations invoked one at a time, an operation that returned
\* nil leaves the link it resolved with exactly its own settings: the
\* marshalled servers and domains of an Apply, no per-link setting after a
\* Revert.  So after a sequence of operations that all returned nil the
\* link has the settings of the last one.
C14_LastOperationWins ==
    \A p \in Procs :
        (Returned(p) /\ ret[p] = NoError) =>
            /\ ifIndex[p] # NoIface
            /\ link[ifIndex[p]] =
                  IF op[p] = "up"
                  THEN [dns |-> linkNameservers(servers[p]),
                        domains |-> linkDomains(domains[p])]
                  ELSE DefaultLink

\* an Apply of [100.100.100.100] and ["ts.net", "corp.example."] returned
\* nil and the link has just that
C14_Witness ==
    \E p \in Procs :
        /\ Applied(p)
        /\ servers[p] = << IP_Quad100 >>
        /\ link[ifIndex[p]] =
              [dns |-> << [Family |-> 2,
                           Address |-> << 100, 100, 100, 100 >>] >>,
               domains |-> << [Domain |-> "ts.net", RoutingOnly |-> FALSE],
                              [Domain |-> "corp.example.",
                               RoutingOnly |-> FALSE] >>]

C15_OneBudget ==
    \A p \in Procs :
        /\ \A i \in 1..Len(issued[p]) :
              /\ issued[p][i].left >= TimeLeft(p)
              /\ i > 1 => issued[p][i].left <= issued[p][i - 1].left
        /\ \A i \in 1..Len(errs[p]) :
              errs[p][i] = DeadlineExceeded => Expired(p)

C15_ClockStep ==
    \A p \in Procs :
        /\ (pc[p] = "idle" /\ pc'[p] # "idle") =>
              (pc'[p] = "detect" /\ elapsed'[p] = 0 /\ steps'[p] = <<>>)
        /\ pc[p] # "idle" => elapsed'[p] >= elapsed[p]

\* C15: the deadline is set once, on entry and before the detector check,
\* and the time of an invocation is never restarted: every call is made
\* with what is left of that one budget, SetLinkDomains with no more than
\* SetLinkDNS had, and a call ends with the deadline error only when the
\* time since the entry has reached systemdSetTimeout.
C15_SingleDeadline == []C15_OneBudget /\ [][C15_ClockStep]_vars

\* SetLinkDNS was made after part of the budget was gone, SetLinkDomains
\* with less still, and SetLinkDomains ran into the deadline
C15_Witness ==
    \E p \in Procs :
        /\ Returned(p) /\ op[p] = "up"
        /\ errs[p] = << "nil", DeadlineExceeded >>
        /\ issued[p][1].left < systemdSetTimeout
        /\ issued[p][2].left < issued[p][1].left

\* C16: once the SetLinkDNS call of an Apply has failed, whatever the
\* failure, the Apply has returned with SetLinkDNS as its only call; and no
\* invocation makes the same remote method twice.
C16_FirstFailureEnds ==
    \A p \in Procs :
        /\ (op[p] = "up" /\ errs[p] # <<>> /\ errs[p][1] # "nil") =>
              /\ errs[p][1] \in CallFailures \cup {DeadlineExceeded}
              /\ Returned(p)
              /\ ret[p] # NoError
              /\ Methods(issued[p]) = << "SetLinkDNS" >>
              /\ Len(errs[p]) = 1
        /\ \A i, j \in 1..Len(issued[p]) :
              issued[p][i].method = issued[p][j].method => i = j

\* SetLinkDNS failed on the transport while the deadline had not passed
C16_Witness ==
    \E p \in Procs :
        /\ Returned(p) /\ op[p] = "up"
        /\ errs[p] = << TransportFailure >>
        /\ ~Expired(p)
        /\ Len(issued[p]) = 1

\* the number of times step s is in the sequence q
Count(q, s) == Cardinality({ i \in 1..Len(q) : q[i] = s })

C17_ResolvedOnce ==
    \A p \in Procs :
        /\ Count(steps[p], "interfaces.Tailscale") <= 1
        /\ issued[p] # <<>> =>
              /\ steps[p] = UpToResolve
              /\ ifIndex[p] \in Indices
              /\ \A i \in 1..Len(issued[p]) : issued[p][i].index = ifIndex[p]

C17_ResolveStep ==
    \A p \in Procs :
        /\ (issued[p] = <<>> /\ issued'[p] # <<>>) =>
              /\ Last(steps'[p]) = "interfaces.Tailscale"
              /\ Len(steps'[p]) = Len(steps[p]) + 1
              /\ tsIface \in Indices
              /\ issued'[p][1].index = tsIface
        /\ issued[p] # <<>> => (ifIndex'[p] = ifIndex[p] \/ pc[p] = "idle")

\* C17: an invocation looks the interface up at most once, and one that
\* makes a remote call has looked it up exactly once, after the readlink
\* and the connection and in the step that makes its first call; the index
\* of that call is the interface's index at that step, whatever earlier
\* invocations used, and every call of the invocation is on that index.
C17_FreshIndex == []C17_ResolvedOnce /\ [][C17_ResolveStep]_vars

\* an earlier Apply left nameservers on one index, the interface then got
\* another index and the latest Apply made both its calls on the new one
C17_Witness ==
    \E p \in Procs : \E i, j \in Indices :
        /\ i # j
        /\ link[i].dns # <<>>
        /\ Applied(p)
        /\ Len(issued[p]) = 2
        /\ issued[p][1].index = j /\ issued[p][2].index = j
        /\ link[j].dns = issued[p][1].dns

\* the names under which a failed remote call is reported
CallNames == { "SetLinkDNS", "SetLinkDomains", "RevertLink" }

\* C18: a returned Apply's error is the SetLinkDNS step's exactly when its
\* first call failed and the SetLinkDomains step's exactly when its first
\* call reported no error and its second failed; a returned Revert's error
\* is the RevertLink step's exactly when its call failed; no other step's
\* error carries one of these names, and the error wraps the call's error.
C18_FailedStepNamed ==
    \A p \in Procs :
        Returned(p) =>
            /\ op[p] = "up" =>
                  /\ ret[p].prefix = "SetLinkDNS" <=>
                        (Len(errs[p]) >= 1 /\ errs[p][1] # "nil")
                  /\ ret[p].prefix = "SetLinkDomains" <=>
                        (Len(errs[p]) = 2 /\ errs[p][1] = "nil"
                            /\ errs[p][2] # "nil")
                  /\ ret[p].prefix # "RevertLink"
            /\ op[p] = "down" =>
                  /\ ret[p].prefix = "RevertLink" <=>
                        (Len(errs[p]) = 1 /\ errs[p][1] # "nil")
                  /\ ret[p].prefix \notin { "SetLinkDNS", "SetLinkDomains" }
            /\ ret[p].prefix \in CallNames =>
                  /\ ret[p].cause = Last(errs[p])
                  /\ ret[p].cause \in CallFailures \cup {DeadlineExceeded}
                  /\ Last(issued[p]).method = ret[p].prefix

\* an Apply whose SetLinkDomains call was rejected after SetLinkDNS was
\* accepted returned the rejection under the name of SetLinkDomains
C18_Witness ==
    \E p \in Procs :
        /\ Returned(p) /\ op[p] = "up"
        /\ errs[p] = << "nil", RemoteRejection >>
        /\ ret[p] = Errorf("SetLinkDomains", RemoteRejection)

\* the error returned when dbus.SystemBus() failed
ConnectionError == Errorf("connecting to system bus", ConnectFailure)

C19_ConnectInOrder ==
    \A p \in Procs :
        /\ \A i \in 1..Len(steps[p]) :
              /\ steps[p][i] = "dbus.SystemBus" => i = 2
              /\ steps[p][i] = "os.Readlink" => i = 1
              /\ steps[p][i] = "interfaces.Tailscale" => i = 3
        /\ (Returned(p) /\ steps[p] = << "os.Readlink", "dbus.SystemBus" >>) =>
              /\ ret[p] = ConnectionError
              /\ ret[p] \notin { errNotSystemd, errNotReady, NoError }
              /\ issued[p] = <<>>
        /\ (Returned(p) /\ ret[p].cause = ConnectFailure) =>
              /\ steps[p] = << "os.Readlink", "dbus.SystemBus" >>
              /\ ret[p].prefix = "connecting to system bus"

C19_ConnectStep ==
    \A p \in Procs :
        /\ (pc[p] # "connect" /\ pc'[p] = "connect") =>
              (pc[p] = "detect" /\ systemdIsActive(resolvConf)
                  /\ steps'[p] = << "os.Readlink" >>)
        /\ (pc[p] = "connect" /\ pc'[p] # "connect") =>
              /\ steps'[p] = << "os.Readlink", "dbus.SystemBus" >>
              /\ issued'[p] = <<>>
              /\ link' = link
              /\ pc'[p] \in { "resolve", "idle" }
              /\ pc'[p] = "idle" => ret'[p] = ConnectionError

\* C19: the connection to the bus is the second step of an invocation,
\* taken only after the readlink showed resolved active and before the
\* interface lookup; when it fails the invocation returns the connection
\* error, which is neither errNotSystemd nor errNotReady, having neither
\* looked the interface up nor made a remote call.
C19_ConnectionFailure == []C19_ConnectInOrder /\ [][C19_ConnectStep]_vars

\* a Revert returned the connection error on a host where resolved is
\* active and the Tailscale interface exists
C19_Witness ==
    \E p \in Procs :
        /\ Returned(p) /\ op[p] = "down"
        /\ ret[p] = ConnectionError
        /\ systemdIsActive(resolvConf)
        /\ tsIface \in Indices
        /\ steps[p] = << "os.Readlink", "dbus.SystemBus" >>
        /\ issued[p] = <<>>

====
